---------------------------- MODULE Spec2Model ----------------------------
(***************************************************************************)
(* Model of the OpenIdMetadata key cache (src/src/apis/OpenIdMetadata.ts). *)
(*                                                                         *)
(* One OpenIdMetadata instance: its fields lastUpdated, keys and issuer,   *)
(* the wall clock read by new Date().getTime(), and the getKey calls made  *)
(* so far, each with the position of the refresh it started (waiting for   *)
(* the hop-1 response, waiting for the hop-2 response, or done).  The HTTP *)
(* responses are the environment's choice.                                 *)
(*                                                                         *)
(* JavaScript values: a value that may be undefined is Undefined or        *)
(* Def(v); a JavaScript string is a sequence of tokens, the empty string   *)
(* being << >>.                                                            *)
(***************************************************************************)
EXTENDS Integers, Sequences, FiniteSets, TLC

VARIABLES
    now,          \* the wall clock, in ms since the epoch
    lastUpdated,  \* OpenIdMetadata.lastUpdated
    keys,         \* OpenIdMetadata.keys
    issuer,       \* OpenIdMetadata.issuer
    calls,        \* the getKey calls made so far, in call order
    commits,      \* how many times the hop-2 callback has written the cache
    issuerOut     \* what the getIssuer call of the last step returned or threw

vars == <<now, lastUpdated, keys, issuer, calls, commits, issuerOut>>

---------------------------------------------------------------------------
(* Bounds of the model. *)

\* How many getKey calls are made.
MaxCalls == 3

---------------------------------------------------------------------------
(* JavaScript values. *)

Undefined == [def |-> FALSE]

Def(v) == [def |-> TRUE, val |-> v]

\* The null that findKey returns.
Null == [def |-> FALSE]

\* !s is false: s is a non-empty string.
TruthyString(s) == s.def /\ s.val # << >>

RECURSIVE IndexOfFrom(_, _, _)
IndexOfFrom(s, tok, i) ==
    IF i > Len(s) THEN 0
    ELSE IF s[i] = tok THEN i
    ELSE IndexOfFrom(s, tok, i + 1)

\* String.prototype.replace with a string pattern: the first occurrence only.
Replace(s, pat, rep) ==
    LET i == IndexOfFrom(s, pat, 1)
    IN  IF i = 0 THEN s
        ELSE SubSeq(s, 1, i - 1) \o <<rep>> \o SubSeq(s, i + 1, Len(s))

---------------------------------------------------------------------------
(* The freshness window and the clock. *)

\* 1000 * 60 * 60 * 24 * 5 ms: five days.
FreshWindow == 1000 * 60 * 60 * 24 * 5

\* The times the clock shows.  A cache that was never written (lastUpdated
\* = 0) is 1 ms short of FreshWindow old at the first, exactly FreshWindow
\* old at the second and 1 ms older at the third; a cache written at the
\* third is 1 ms more than FreshWindow old at the fourth.
Times == {FreshWindow - 1, FreshWindow, FreshWindow + 1, 2 * FreshWindow + 2}

\* A bug: the comparison made inclusive.
IsStaleInclusive(lu, t) == lu <= t - FreshWindow

\* getKey's test: this.lastUpdated < (now - 1000 * 60 * 60 * 24 * 5).
IsStale(lu, t) == lu < t - FreshWindow

---------------------------------------------------------------------------
(* Key records (IKey) and the lookup. *)

\* An IKey, of which findKey reads kid, n, e and endorsements.
Key(kid, n, e, endorsements) ==
    [kid |-> kid, n |-> n, e |-> e, endorsements |-> endorsements]

ModA == <<"x", "-", "_">>

ModB == <<"A", "Q">>

ExpAQAB == <<"AQAB">>

RsaAbc == Key("abc", Def(ModA), Def(ExpAQAB), Undefined)

\* A second RSA key of the same kid, with endorsements.
RsaAbcB == Key("abc", Def(ModB), Def(ExpAQAB), Def(<<"msteams">>))

\* An EC key: no modulus, no exponent.
EcAbc == Key("abc", Undefined, Undefined, Undefined)

\* A record whose exponent is the empty string.
NoExpAbc == Key("abc", Def(ModA), Def(<< >>), Undefined)

RsaXyz == Key("xyz", Def(ModB), Def(ExpAQAB), Undefined)

\* The key lists a JWKS response may carry.
KeyLists ==
    { <<RsaXyz, RsaAbc>>,
      <<RsaAbcB, RsaAbc>>,
      <<EcAbc, RsaAbc>>,
      <<NoExpAbc, RsaAbcB>>,
      <<RsaXyz>> }

\* The key ids looked up.
Kids == {"abc"}

RECURSIVE PadString(_)
\* base64url's padString: "=" appended up to a multiple of 4 characters.
PadString(s) == IF Len(s) % 4 = 0 THEN s ELSE PadString(Append(s, "="))

\* base64url.toBase64: pad, then "-" becomes "+" and "_" becomes "/".
ToBase64(s) ==
    LET p == PadString(s)
    IN  [i \in 1..Len(p) |->
            IF p[i] = "-" THEN "+" ELSE IF p[i] = "_" THEN "/" ELSE p[i]]

\* rsa-pem-from-mod-exp: the PEM of the public key with this modulus and
\* exponent, kept as the pair that determines it.
GetPem(modulus, exponent) == [pem |-> "RSA PUBLIC KEY", mod |-> modulus, exp |-> exponent]

RECURSIVE FindFromSkipNonRsa(_, _, _)
\* A bug: a matching record without n or e is skipped and the scan goes on.
FindFromSkipNonRsa(ks, keyId, i) ==
    IF i > Len(ks) THEN Null
    ELSE IF ks[i].kid = keyId /\ TruthyString(ks[i].n) /\ TruthyString(ks[i].e)
         THEN Def([key |-> GetPem(ToBase64(ks[i].n.val), ks[i].e.val),
                   endorsements |-> ks[i].endorsements])
         ELSE FindFromSkipNonRsa(ks, keyId, i + 1)

RECURSIVE FindFromLastMatch(_, _, _)
\* A bug: the last record whose kid matches decides, not the first.
FindFromLastMatch(ks, keyId, i) ==
    IF i > Len(ks) THEN Null
    ELSE IF \E j \in (i + 1)..Len(ks) : ks[j].kid = keyId
         THEN FindFromLastMatch(ks, keyId, i + 1)
         ELSE IF ks[i].kid # keyId \/ ~TruthyString(ks[i].n) \/ ~TruthyString(ks[i].e)
              THEN Null
              ELSE Def([key |-> GetPem(ToBase64(ks[i].n.val), ks[i].e.val),
                        endorsements |-> ks[i].endorsements])

RECURSIVE FindFrom(_, _, _)
\* The for loop of findKey, from index i on: the first record whose kid
\* matches decides.
FindFrom(ks, keyId, i) ==
    IF i > Len(ks) THEN Null
    ELSE IF ks[i].kid = keyId
         THEN IF ~TruthyString(ks[i].n) \/ ~TruthyString(ks[i].e)
              THEN Null
              ELSE Def([key |-> GetPem(ToBase64(ks[i].n.val), ks[i].e.val),
                        endorsements |-> ks[i].endorsements])
         ELSE FindFrom(ks, keyId, i + 1)

\* A bug: no test of !this.keys, so that reading the length of an undefined
\* list throws a TypeError.
FindKeyUnguarded(k, keyId) ==
    IF ~k.def THEN Def("TypeError") ELSE FindFrom(k.val, keyId, 1)

\* findKey(keyId) on the cache k (this.keys).
FindKey(k, keyId) == IF ~k.def THEN Null ELSE FindFrom(k.val, keyId, 1)

---------------------------------------------------------------------------
(* HTTP: the requests made and the responses the environment may give. *)

\* The url given to the constructor.
Url == "https://login/.well-known/openid-configuration"

TemplateA == <<"https://login/", "{tenantid}", "/v2">>

\* A template with the placeholder twice.
TemplateB == <<"https://sts/", "{tenantid}", "/", "{tenantid}">>

Tenants == {"tenant1"}

\* A response body.  kind "empty": no body (!body holds).  kind "json": a
\* parsed object.  kind "text": a body that did not parse, which request
\* hands over as a string: a truthy value whose issuer, jwks_uri and keys
\* are undefined.
Body(kind, iss, jwks, ks) == [kind |-> kind, issuer |-> iss, jwks_uri |-> jwks, keys |-> ks]

EmptyBody == Body("empty", Undefined, Undefined, Undefined)

TextBody == Body("text", Undefined, Undefined, Undefined)

\* The discovery documents (IOpenIdConfig) the first hop may receive.
ConfigBodies ==
    { Body("json", Def(TemplateA), Def("https://login/keys"), Undefined),
      Body("json", Def(TemplateB), Def("https://sts/keys"), Undefined),
      Body("json", Undefined, Undefined, Undefined) }

\* The JWKS documents the second hop may receive.
JwksBodies ==
    { Body("json", Undefined, Undefined, Def(ks)) : ks \in KeyLists }
    \cup { Body("json", Undefined, Undefined, Undefined) }

\* What request hands its callback: (err, response, body).
Response(err, statusCode, body) == [err |-> err, statusCode |-> statusCode, body |-> body]

\* A transport error: no response, no body.
TransportError == Response(TRUE, 0, EmptyBody)

\* The responses to the first request: a transport error, an error
\* status with each well-formed body, and status 200 with every body.
Responses1 ==
    { TransportError }
    \cup { Response(FALSE, 404, b) : b \in ConfigBodies }
    \cup { Response(FALSE, 200, b) : b \in ConfigBodies \cup {EmptyBody, TextBody} }

\* The responses to the second request, likewise.
Responses2 ==
    { TransportError }
    \cup { Response(FALSE, 404, b) : b \in JwksBodies }
    \cup { Response(FALSE, 200, b) : b \in JwksBodies \cup {EmptyBody, TextBody} }

\* The outcome of the callback's first statement and its test:
\*   if (!err && (response.statusCode >= 400 || !body)) err = new Error(...)
\*   if (err) ...
HopFailed(r) == r.err \/ (~r.err /\ (r.statusCode >= 400 \/ r.body.kind = "empty"))

---------------------------------------------------------------------------
(* The state after construction. *)

\* A getKey call.  keyId: its argument.  inWindow: whether the cache was at
\* most FreshWindow old when the call was made.  pc: "hop1" or "hop2" while
\* the refresh it started waits for that response, "done" once its callback
\* has run.  started: the clock when its refresh was started, while the
\* refresh is in flight (0 otherwise).  req: the url of the request in
\* flight.  hops: how many requests its refresh has issued.  outcome: how
\* it ended ("fresh": no refresh; "hop1fail", "hop2fail", "ok": the
\* refresh's end).  result: what its callback received.  ver: the value of
\* commits when its callback ran.
Call(keyId, inWindow, pc, started, req, hops, outcome, result, ver) ==
    [keyId |-> keyId, inWindow |-> inWindow, pc |-> pc, started |-> started,
     req |-> req, hops |-> hops, outcome |-> outcome, result |-> result,
     ver |-> ver]

\* The last step was no getIssuer call.
NoIssuerCall == [called |-> FALSE]

\* A bug: the constructor stamps the empty cache with the clock.
InitStamped ==
    /\ now = FreshWindow - 1
    /\ lastUpdated = now
    /\ keys = Undefined
    /\ issuer = Undefined
    /\ calls = << >>
    /\ commits = 0
    /\ issuerOut = NoIssuerCall

Init ==
    /\ now = FreshWindow - 1
    /\ lastUpdated = 0
    /\ keys = Undefined
    /\ issuer = Undefined
    /\ calls = << >>
    /\ commits = 0
    /\ issuerOut = NoIssuerCall

---------------------------------------------------------------------------
(* The operations. *)

\* The clock advances.
Tick(t) ==
    /\ t > now
    /\ now' = t
    /\ issuerOut' = NoIssuerCall
    /\ UNCHANGED <<lastUpdated, keys, issuer, calls, commits>>

\* A bug: on a refresh error the callback returns without searching.
DeliverNullOnError(c, k, outcome, ver) ==
    [c EXCEPT !.pc = "done", !.started = 0, !.req = Undefined,
              !.outcome = outcome,
              !.result = IF outcome \in {"hop1fail", "hop2fail"}
                         THEN Null ELSE FindKey(k, c.keyId),
              !.ver = ver]

\* getKey's callback in the refresh branch, and its else branch: search the
\* cache k and hand the result to cb.
Deliver(c, k, outcome, ver) ==
    [c EXCEPT !.pc = "done", !.started = 0, !.req = Undefined,
              !.outcome = outcome, !.result = FindKey(k, c.keyId), !.ver = ver]

\* A bug: every lookup refreshes, whatever the age of the cache.
GetKeyAlwaysRefresh(keyId) ==
    /\ Len(calls) < MaxCalls
    /\ calls' = Append(calls, Call(keyId, now - lastUpdated <= FreshWindow, "hop1",
                                   now, Def(Url), 1, "pending", Null, 0))
    /\ issuerOut' = NoIssuerCall
    /\ UNCHANGED <<now, lastUpdated, keys, issuer, commits>>

\* A bug: a single-flight guard with back-off; a call that finds the cache
\* stale while a refresh is in flight or after one has failed starts none
\* and is served from the cache.
GetKeySingleFlight(keyId) ==
    /\ Len(calls) < MaxCalls
    /\ calls' =
         Append(calls,
            LET c == Call(keyId, now - lastUpdated <= FreshWindow, "hop1", now,
                          Def(Url), 1, "pending", Null, 0)
            IN  IF /\ IsStale(lastUpdated, now)
                   /\ \A j \in 1..Len(calls) : calls[j].outcome \in {"fresh", "ok"}
                THEN c
                ELSE Deliver([c EXCEPT !.hops = 0], keys, "fresh", commits))
    /\ issuerOut' = NoIssuerCall
    /\ UNCHANGED <<now, lastUpdated, keys, issuer, commits>>

\* getKey(keyId, cb): a stale cache starts refreshCache, which issues the
\* GET of this.url; a fresh one is searched at once.
GetKey(keyId) ==
    /\ Len(calls) < MaxCalls
    /\ calls' =
         Append(calls,
            LET c == Call(keyId, now - lastUpdated <= FreshWindow, "hop1", now,
                          Def(Url), 1, "pending", Null, 0)
            IN  IF IsStale(lastUpdated, now)
                THEN c
                ELSE Deliver([c EXCEPT !.hops = 0], keys, "fresh", commits))
    /\ issuerOut' = NoIssuerCall
    /\ UNCHANGED <<now, lastUpdated, keys, issuer, commits>>

\* A bug: no test of !this.issuer.
IssuerResultUnchecked(iss, tenantId) ==
    [called |-> TRUE, tenantId |-> tenantId, threw |-> FALSE,
     value |-> IF iss.def THEN Replace(iss.val, "{tenantid}", tenantId)
               ELSE <<"undefined">>]

\* What getIssuer(tenantId) does on the issuer field iss: it throws when
\* !iss, and returns iss.replace("{tenantid}", tenantId) otherwise.
IssuerResult(iss, tenantId) ==
    IF ~TruthyString(iss)
    THEN [called |-> TRUE, tenantId |-> tenantId, threw |-> TRUE, value |-> << >>]
    ELSE [called |-> TRUE, tenantId |-> tenantId, threw |-> FALSE,
          value |-> Replace(iss.val, "{tenantid}", tenantId)]

\* A bug: getIssuer fetches the configuration itself when it has none.
GetIssuerFetching(tenantId) ==
    /\ issuerOut' = IssuerResult(issuer, tenantId)
    /\ calls' = IF ~TruthyString(issuer) /\ Len(calls) < MaxCalls
                THEN Append(calls, Call("abc", now - lastUpdated <= FreshWindow,
                                        "hop1", now, Def(Url), 1, "pending", Null, 0))
                ELSE calls
    /\ UNCHANGED <<now, lastUpdated, keys, issuer, commits>>

\* getIssuer(tenantId).
GetIssuer(tenantId) ==
    /\ issuerOut' = IssuerResult(issuer, tenantId)
    /\ UNCHANGED <<now, lastUpdated, keys, issuer, calls, commits>>

\* A bug: the issuer is stored before the error is looked at.
Hop1ResponseIssuerFirst(i, r) ==
    /\ calls[i].pc = "hop1"
    /\ issuer' = IF r.body.kind = "empty" THEN issuer ELSE r.body.issuer
    /\ IF HopFailed(r)
       THEN calls' = [calls EXCEPT ![i] = Deliver(@, keys, "hop1fail", commits)]
       ELSE calls' = [calls EXCEPT ![i].pc = "hop2",
                                   ![i].req = r.body.jwks_uri,
                                   ![i].hops = @ + 1]
    /\ issuerOut' = NoIssuerCall
    /\ UNCHANGED <<now, lastUpdated, keys, commits>>

\* A bug: the second request is issued whatever the first one's outcome.
Hop1ResponseAlwaysHop2(i, r) ==
    /\ calls[i].pc = "hop1"
    /\ issuer' = IF HopFailed(r) THEN issuer ELSE r.body.issuer
    /\ calls' = [calls EXCEPT ![i].pc = "hop2",
                              ![i].req = r.body.jwks_uri,
                              ![i].hops = @ + 1]
    /\ issuerOut' = NoIssuerCall
    /\ UNCHANGED <<now, lastUpdated, keys, commits>>

\* A bug: an error of the first request is swallowed; cb is never called.
Hop1ResponseSwallowsError(i, r) ==
    /\ calls[i].pc = "hop1"
    /\ IF HopFailed(r)
       THEN /\ calls' = [calls EXCEPT ![i].pc = "lost",
                                      ![i].started = 0,
                                      ![i].req = Undefined]
            /\ UNCHANGED issuer
       ELSE /\ issuer' = r.body.issuer
            /\ calls' = [calls EXCEPT ![i].pc = "hop2",
                                      ![i].req = r.body.jwks_uri,
                                      ![i].hops = @ + 1]
    /\ issuerOut' = NoIssuerCall
    /\ UNCHANGED <<now, lastUpdated, keys, commits>>

\* A bug: a failed first hop forgets the issuer.
Hop1ResponseClearsIssuer(i, r) ==
    /\ calls[i].pc = "hop1"
    /\ IF HopFailed(r)
       THEN /\ calls' = [calls EXCEPT ![i] = Deliver(@, keys, "hop1fail", commits)]
            /\ issuer' = Undefined
       ELSE /\ issuer' = r.body.issuer
            /\ calls' = [calls EXCEPT ![i].pc = "hop2",
                                      ![i].req = r.body.jwks_uri,
                                      ![i].hops = @ + 1]
    /\ issuerOut' = NoIssuerCall
    /\ UNCHANGED <<now, lastUpdated, keys, commits>>

\* The callback of refreshCache's first request, for call i, given r.
Hop1Response(i, r) ==
    /\ calls[i].pc = "hop1"
    /\ IF HopFailed(r)
       THEN /\ calls' = [calls EXCEPT ![i] = Deliver(@, keys, "hop1fail", commits)]
            /\ UNCHANGED issuer
       ELSE /\ issuer' = r.body.issuer
            /\ calls' = [calls EXCEPT ![i].pc = "hop2",
                                      ![i].req = r.body.jwks_uri,
                                      ![i].hops = @ + 1]
    /\ issuerOut' = NoIssuerCall
    /\ UNCHANGED <<now, lastUpdated, keys, commits>>

\* A bug: the new list is merged into the old one.
NewKeysMerged(old, body) ==
    IF old.def /\ body.keys.def THEN Def(old.val \o body.keys.val) ELSE body.keys

\* The value the hop-2 callback stores in this.keys: body.keys, whatever
\* the list held before.
NewKeys(old, body) == body.keys

\* A bug: the two writes of the commit are torn apart; the key list is
\* stored and the callback runs while lastUpdated still has its old value.
Hop2ResponseKeysBeforeStamp(i, r) ==
    /\ calls[i].pc = "hop2"
    /\ calls[i].req.def \/ r = TransportError
    /\ IF HopFailed(r)
       THEN /\ calls' = [calls EXCEPT ![i] = Deliver(@, keys, "hop2fail", commits)]
            /\ UNCHANGED <<lastUpdated, keys, commits>>
       ELSE /\ lastUpdated' = lastUpdated
            /\ keys' = NewKeys(keys, r.body)
            /\ commits' = commits + 1
            /\ calls' = [calls EXCEPT ![i] = Deliver(@, keys', "ok", commits')]
    /\ issuerOut' = NoIssuerCall
    /\ UNCHANGED <<now, issuer>>

\* A bug: first writer wins; a response that arrives after another refresh
\* has committed since this one was started is thrown away.
Hop2ResponseFirstWriterWins(i, r) ==
    /\ calls[i].pc = "hop2"
    /\ calls[i].req.def \/ r = TransportError
    /\ IF HopFailed(r)
       THEN /\ calls' = [calls EXCEPT ![i] = Deliver(@, keys, "hop2fail", commits)]
            /\ UNCHANGED <<lastUpdated, keys, commits>>
       ELSE /\ lastUpdated' = IF lastUpdated >= calls[i].started
                              THEN lastUpdated ELSE now
            /\ keys' = IF lastUpdated >= calls[i].started
                       THEN keys ELSE NewKeys(keys, r.body)
            /\ commits' = commits + 1
            /\ calls' = [calls EXCEPT ![i] = Deliver(@, keys', "ok", commits')]
    /\ issuerOut' = NoIssuerCall
    /\ UNCHANGED <<now, issuer>>

\* A bug: the commit stamps the cache with the time its refresh was
\* started, not with the time of the commit.
Hop2ResponseStampStart(i, r) ==
    /\ calls[i].pc = "hop2"
    /\ calls[i].req.def \/ r = TransportError
    /\ IF HopFailed(r)
       THEN /\ calls' = [calls EXCEPT ![i] = Deliver(@, keys, "hop2fail", commits)]
            /\ UNCHANGED <<lastUpdated, keys, commits>>
       ELSE /\ lastUpdated' = calls[i].started
            /\ keys' = NewKeys(keys, r.body)
            /\ commits' = commits + 1
            /\ calls' = [calls EXCEPT ![i] = Deliver(@, keys', "ok", commits')]
    /\ issuerOut' = NoIssuerCall
    /\ UNCHANGED <<now, issuer>>

\* The callback of refreshCache's second request, for call i, given r.  A
\* request without a url never reaches the network: request reports an
\* error to the callback.
Hop2Response(i, r) ==
    /\ calls[i].pc = "hop2"
    /\ calls[i].req.def \/ r = TransportError
    /\ IF HopFailed(r)
       THEN /\ calls' = [calls EXCEPT ![i] = Deliver(@, keys, "hop2fail", commits)]
            /\ UNCHANGED <<lastUpdated, keys, commits>>
       ELSE /\ lastUpdated' = now
            /\ keys' = NewKeys(keys, r.body)
            /\ commits' = commits + 1
            /\ calls' = [calls EXCEPT ![i] = Deliver(@, keys', "ok", commits')]
    /\ issuerOut' = NoIssuerCall
    /\ UNCHANGED <<now, issuer>>

Next ==
    \/ \E t \in Times : Tick(t)
    \/ \E keyId \in Kids : GetKey(keyId)
    \/ \E tenantId \in Tenants : GetIssuer(tenantId)
    \/ \E i \in 1..Len(calls) : \E r \in Responses1 : Hop1Response(i, r)
    \/ \E i \in 1..Len(calls) : \E r \in Responses2 : Hop2Response(i, r)

Spec == Init /\ [][Next]_vars

\* The callback of the request that call i has in flight runs: request
\* calls it with the response, or with an error.
Responds(i) ==
    /\ i <= Len(calls)
    /\ \/ \E r \in Responses1 : Hop1Response(i, r)
       \/ \E r \in Responses2 : Hop2Response(i, r)

\* The program with every request it issues completing in the end, by a
\* response or by an error: the callback of a request in flight is not
\* put off for ever.
FairSpec == Spec /\ \A i \in 1..MaxCalls : WF_vars(Responds(i))

---------------------------------------------------------------------------
(* Steps of a call, told by what they do to its record. *)

\* The callback of call i's first request was given an error: cb(err).
Hop1Failed(i) == calls[i].pc = "hop1" /\ calls'[i].pc = "done"

\* The callback of call i's first request was given no error: the issuer
\* was stored and the second request issued.
Hop1Succeeded(i) == calls[i].pc = "hop1" /\ calls'[i].pc = "hop2"

\* The callback of call i's second request was given an error: cb(err).
Hop2Failed(i) == calls[i].pc = "hop2" /\ calls'[i].outcome = "hop2fail"

\* The callback of call i's second request wrote the cache.
Hop2Committed(i) == calls[i].pc = "hop2" /\ calls'[i].outcome = "ok"

\* A getKey call was made in this step.
GetKeyCalled == Len(calls') = Len(calls) + 1

\* Call i's callback ran in this step.
Delivered(i) ==
    /\ calls'[i].pc = "done"
    /\ i <= Len(calls) => calls[i].pc # "done"

\* No first hop has succeeded yet: no call has issued a second request.
NoHop1Success == \A i \in 1..Len(calls) : calls[i].hops <= 1

\* The last step was a getIssuer call that threw.
IssuerThrew == issuerOut.called /\ issuerOut.threw

\* The positions of the records of ks whose kid is keyId.
Matches(ks, keyId) == {i \in 1..Len(ks) : ks[i].kid = keyId}

\* The first of them.
FirstMatch(ks, keyId) ==
    CHOOSE i \in Matches(ks, keyId) : \A j \in Matches(ks, keyId) : i <= j

\* The record has no modulus or no exponent.
LacksModOrExp(rec) ==
    \/ ~rec.n.def \/ rec.n.val = << >>
    \/ ~rec.e.def \/ rec.e.val = << >>

\* The five days of the freshness window, in ms.
FiveDaysMs == 432000000

---------------------------------------------------------------------------
(* The claims. *)

\* C1: when the first hop of a refresh fails, that step leaves keys and
\* lastUpdated as they were, the call has issued its one request and no
\* second one, and a getIssuer that threw before the step throws after it.
C1_Hop1FailureChangesNothing ==
    [][\A i \in 1..Len(calls) :
          Hop1Failed(i) =>
             /\ keys' = keys
             /\ lastUpdated' = lastUpdated
             /\ calls'[i].hops = 1
             /\ \A t \in Tenants :
                   IssuerResult(issuer, t).threw => IssuerResult(issuer', t).threw]_vars

\* C1: a refresh has failed at its first hop on a resolver that never had
\* an issuer, and the getIssuer call that followed threw.
C1_Witness ==
    /\ \E i \in 1..Len(calls) : calls[i].outcome = "hop1fail" /\ calls[i].hops = 1
    /\ NoHop1Success
    /\ keys = Undefined /\ lastUpdated = 0
    /\ IssuerThrew

\* C2 (as claimed): when the second hop of a refresh fails, keys and
\* lastUpdated are left as they were and getIssuer does not throw after the
\* step.
C2_IssuerAvailableAfterHop2Failure ==
    [][\A i \in 1..Len(calls) :
          Hop2Failed(i) =>
             /\ keys' = keys
             /\ lastUpdated' = lastUpdated
             /\ \A t \in Tenants : ~IssuerResult(issuer', t).threw]_vars

\* C3: the step in which a refresh's second hop succeeds replaces keys by
\* the key list of the response, and sets lastUpdated to the clock, which is
\* no earlier than the time the refresh was started.
C3_CommitReplacesKeys ==
    [][\A i \in 1..Len(calls) :
          Hop2Committed(i) =>
             /\ \E r \in Responses2 : Hop2Response(i, r) /\ keys' = r.body.keys
             /\ lastUpdated' = now
             /\ lastUpdated' >= calls[i].started]_vars

\* C3: two refreshes have committed; the first one's list held the key,
\* the second one's list, which is the cache now, does not.
C3_Witness ==
    \E i, j \in 1..Len(calls) :
       /\ calls[i].outcome = "ok" /\ calls[i].ver = 1 /\ calls[i].result.def
       /\ calls[j].outcome = "ok" /\ calls[j].ver = 2 /\ ~calls[j].result.def
       /\ commits = 2
       /\ keys = Def(<<RsaXyz>>)
       /\ lastUpdated = 2 * FreshWindow + 2

\* C4: when the refresh a call started fails, at either hop, the call's
\* callback receives the result of searching the keys cached at that
\* moment, which the failure has not changed.
C4_FailureServesCache ==
    [][\A i \in 1..Len(calls) :
          (Hop1Failed(i) \/ Hop2Failed(i)) =>
             /\ calls'[i].pc = "done"
             /\ calls'[i].result = FindKey(keys, calls[i].keyId)
             /\ keys' = keys]_vars

\* C4: a call that found the cache stale and whose refresh failed has
\* received the key cached before, and another has received null from a
\* cache that was never loaded.
C4_Witness ==
    /\ \E i \in 1..Len(calls) :
          /\ calls[i].outcome \in {"hop1fail", "hop2fail"}
          /\ ~calls[i].inWindow
          /\ calls[i].result.def
    /\ \E i \in 1..Len(calls) :
          /\ calls[i].outcome \in {"hop1fail", "hop2fail"}
          /\ calls[i].ver = 0
          /\ calls[i].result = Null

\* C5: a getKey call starts a refresh exactly when the clock minus
\* lastUpdated is more than 432000000 ms; otherwise it issues no request
\* and its callback runs at once.
C5_RefreshIffOlderThanFiveDays ==
    [][GetKeyCalled =>
          LET c == calls'[Len(calls')]
          IN  /\ (c.pc = "hop1" /\ c.hops = 1) <=> (now - lastUpdated > FiveDaysMs)
              /\ c.pc # "hop1" => (c.pc = "done" /\ c.hops = 0)]_vars

\* C5: a lookup made when the never-written cache (lastUpdated = 0) was at
\* most 5 days old started no refresh; and with lastUpdated = T written by
\* a refresh since, the lookup made at T + 5 days + 1 ms has started one.
C5_Witness ==
    /\ Len(calls) = 3
    /\ calls[1].outcome = "fresh" /\ calls[1].ver = 0 /\ calls[1].hops = 0
    /\ calls[2].outcome = "ok"
    /\ lastUpdated = FreshWindow + 1 /\ commits = 1
    /\ calls[3].pc = "hop1"
    /\ calls[3].started = lastUpdated + FiveDaysMs + 1

\* C6: a call made within the freshness window issues no request, and two
\* such calls for the same kid with no commit between them receive the same
\* result.
C6_FreshLookupsAgree ==
    /\ \A i \in 1..Len(calls) :
          calls[i].inWindow => (calls[i].pc = "done" /\ calls[i].hops = 0)
    /\ \A i, j \in 1..Len(calls) :
          (/\ calls[i].inWindow /\ calls[j].inWindow
           /\ calls[i].keyId = calls[j].keyId
           /\ calls[i].ver = calls[j].ver)
          => calls[i].result = calls[j].result

\* C6: two calls within the window, after the same commit, have received
\* the same key.
C6_Witness ==
    \E i, j \in 1..Len(calls) :
       /\ i < j
       /\ calls[i].inWindow /\ calls[j].inWindow
       /\ calls[i].keyId = calls[j].keyId
       /\ calls[i].ver = 1 /\ calls[j].ver = 1
       /\ calls[i].result.def
       /\ calls[i].result = calls[j].result

\* C7: as long as no first hop has succeeded, getIssuer throws for every
\* tenant, and a getIssuer call just made has thrown.
C7_IssuerThrowsBeforeFirstHop ==
    NoHop1Success =>
       /\ \A t \in Tenants : IssuerResult(issuer, t).threw
       /\ issuerOut.called => issuerOut.threw

\* C7: getIssuer has thrown after getKey calls whose first hops all failed.
C7_Witness ==
    /\ IssuerThrew
    /\ NoHop1Success
    /\ Len(calls) >= 2
    /\ \A i \in 1..Len(calls) : calls[i].outcome = "hop1fail"

\* C8: a getIssuer call, whether it returns or throws, leaves issuer, keys
\* and lastUpdated as they were and issues no request: the calls and the
\* requests they have issued are unchanged.
C8_GetIssuerChangesNothing ==
    [][issuerOut'.called =>
          /\ issuer' = issuer
          /\ keys' = keys
          /\ lastUpdated' = lastUpdated
          /\ calls' = calls
          /\ commits' = commits]_vars

\* C8: getIssuer has returned the template with the tenant filled in while
\* the keys were never loaded and a refresh waits for its second response.
C8_Witness ==
    /\ issuerOut.called /\ ~issuerOut.threw
    /\ issuerOut.value = <<"https://login/", "tenant1", "/v2">>
    /\ keys = Undefined
    /\ \E i \in 1..Len(calls) : calls[i].pc = "hop2"

\* C9: when the first record of the cache whose kid is the one looked up
\* has no modulus or no exponent, the callback receives null.
C9_NonRsaKeyYieldsNull ==
    [][\A i \in 1..Len(calls') :
          (/\ Delivered(i)
           /\ keys'.def
           /\ Matches(keys'.val, calls'[i].keyId) # {}
           /\ LacksModOrExp(keys'.val[FirstMatch(keys'.val, calls'[i].keyId)]))
          => calls'[i].result = Null]_vars

\* C9: a call has received null from the cache its refresh committed,
\* which holds an EC record of its kid followed by an RSA record of it.
C9_Witness ==
    /\ keys = Def(<<EcAbc, RsaAbc>>)
    /\ commits = 1
    /\ \E i \in 1..Len(calls) :
          calls[i].outcome = "ok" /\ calls[i].ver = 1 /\ calls[i].result = Null

\* C10: when the cache holds no key list, or a list without a record of
\* the kid looked up, the callback receives null.
C10_MissingKeyYieldsNull ==
    [][\A i \in 1..Len(calls') :
          (/\ Delivered(i)
           /\ (~keys'.def \/ Matches(keys'.val, calls'[i].keyId) = {}))
          => calls'[i].result = Null]_vars

\* C10: one call has received null before any key list was committed, and
\* another from a committed list that has no record of its kid.
C10_Witness ==
    /\ keys = Def(<<RsaXyz>>)
    /\ \E i \in 1..Len(calls) :
          calls[i].outcome = "fresh" /\ calls[i].ver = 0 /\ calls[i].result = Null
    /\ \E i \in 1..Len(calls) :
          calls[i].pc = "done" /\ calls[i].ver = 1 /\ calls[i].result = Null

\* C11: in every step the pair (keys, lastUpdated) is either left as it was
\* or written whole by the one callback that commits: lastUpdated becomes
\* the clock and keys the list of that response in the same step.  A lookup
\* whose callback runs in a step searches the keys of the state the step
\* ends in, so it reads the pair from before a commit or the pair from
\* after it.
C11_CommitIsAtomic ==
    [][/\ \/ (keys' = keys /\ lastUpdated' = lastUpdated)
          \/ \E i \in 1..Len(calls) :
                /\ Hop2Committed(i)
                /\ lastUpdated' = now
                /\ \E r \in Responses2 : Hop2Response(i, r) /\ keys' = r.body.keys
       /\ \A i \in 1..Len(calls') :
             Delivered(i) => calls'[i].result = FindKey(keys', calls'[i].keyId)]_vars

\* C11: two refreshes were started on the stale cache; the later one has
\* committed a list that holds the key, and the earlier one, which raced
\* it and then failed, has received the key of the cache after the commit.
C11_Witness ==
    \E i, j \in 1..Len(calls) :
       /\ i < j
       /\ ~calls[i].inWindow /\ ~calls[j].inWindow
       /\ calls[j].outcome = "ok" /\ calls[j].ver = 1
       /\ calls[i].outcome \in {"hop1fail", "hop2fail"} /\ calls[i].ver = 1
       /\ calls[i].result.def
       /\ calls[i].result = FindKey(keys, calls[i].keyId)
       /\ commits = 1 /\ lastUpdated = FreshWindow + 1

\* C12: a getKey call that finds the cache stale starts a refresh of its
\* own, whatever refreshes are in flight, and leaves the other calls alone.
\* Every refresh whose second hop succeeds commits, whatever was committed
\* before it: keys becomes its list and lastUpdated the clock of that step;
\* no other step writes either.  So the call that committed last has
\* received the result of searching the keys the cache holds.
C12_LastWriterWins ==
    /\ [](\A j \in 1..Len(calls) :
            (calls[j].outcome = "ok" /\ calls[j].ver = commits)
            => calls[j].result = FindKey(keys, calls[j].keyId))
    /\ [][/\ (GetKeyCalled /\ now - lastUpdated > FreshWindow) =>
              /\ calls'[Len(calls')].pc = "hop1"
              /\ calls'[Len(calls')].hops = 1
              /\ calls'[Len(calls')].req = Def(Url)
              /\ \A i \in 1..Len(calls) : calls'[i] = calls[i]
          /\ \A i \in 1..Len(calls) :
                Hop2Committed(i) =>
                   /\ commits' = commits + 1
                   /\ calls'[i].ver = commits'
                   /\ lastUpdated' = now
                   /\ \E r \in Responses2 : Hop2Response(i, r) /\ keys' = r.body.keys
          /\ (\A i \in 1..Len(calls) : ~Hop2Committed(i)) =>
                UNCHANGED <<keys, lastUpdated, commits>>]_vars

\* C12: two calls found the never-loaded cache stale and each started a
\* refresh; the second one's refresh committed first, the first one's last,
\* at a later time; all calls are done, and the cache holds the list and
\* the time of the commit of the first call, whose list has the key while
\* the other's had not.
C12_Witness ==
    /\ Len(calls) >= 2
    /\ \A i \in 1..Len(calls) : calls[i].pc = "done"
    /\ ~calls[1].inWindow /\ ~calls[2].inWindow
    /\ calls[2].outcome = "ok" /\ calls[2].ver = 1 /\ calls[2].result = Null
    /\ calls[1].outcome = "ok" /\ calls[1].ver = 2 /\ calls[1].result.def
    /\ commits = 2
    /\ FindKey(keys, "abc") = calls[1].result
    /\ lastUpdated = 2 * FreshWindow + 2
    /\ now = lastUpdated

\* C13 (as claimed): whenever the response to a hop is a transport error,
\* has a status of 400 or more, or has a body that is empty or is not
\* JSON, the refresh callback is given an error at that hop, under the same
\* conditions at both hops, and the cache is not written: issuer at hop 1,
\* keys and lastUpdated at hop 2, are left as they were.
C13_BadResponseIsAnError ==
    [][\A i \in 1..Len(calls) :
          /\ \A r \in Responses1 :
                (/\ calls[i].pc = "hop1"
                 /\ Hop1Response(i, r)
                 /\ (r.err \/ r.statusCode >= 400 \/ r.body.kind \in {"empty", "text"}))
                => (Hop1Failed(i) /\ issuer' = issuer)
          /\ \A r \in Responses2 :
                (/\ calls[i].pc = "hop2"
                 /\ Hop2Response(i, r)
                 /\ (r.err \/ r.statusCode >= 400 \/ r.body.kind \in {"empty", "text"}))
                => (Hop2Failed(i) /\ keys' = keys /\ lastUpdated' = lastUpdated)]_vars

\* C14: a call's second request is issued only in the step in which its
\* first request's callback is given a response that is no error, and its
\* url is the jwks_uri of that response; no other step issues a request
\* for the call.  The callback of a refresh runs in a step that handles
\* the response to the last request the refresh has issued, and once it
\* has run the call is never touched again.
C14_HopsInOrder ==
    [][\A i \in 1..Len(calls) :
          /\ (calls'[i].pc = "hop2" /\ calls[i].pc # "hop2") =>
                /\ calls[i].pc = "hop1"
                /\ \E r \in Responses1 :
                      /\ ~HopFailed(r)
                      /\ Hop1Response(i, r)
                      /\ calls'[i].req = r.body.jwks_uri
          /\ calls'[i].hops # calls[i].hops =>
                (calls[i].pc = "hop1" /\ calls'[i].pc = "hop2"
                 /\ calls[i].hops = 1 /\ calls'[i].hops = 2)
          /\ Delivered(i) =>
                /\ Hop1Failed(i) \/ Hop2Failed(i) \/ Hop2Committed(i)
                /\ calls'[i].hops = calls[i].hops
                /\ Hop1Failed(i) <=> calls'[i].hops = 1
          /\ calls[i].pc = "done" => calls'[i] = calls[i]]_vars

\* C14: one refresh has ended after its first request failed, without a
\* second one; another has ended after two requests; a third has had the
\* discovery document of the sts endpoint and waits for the answer of the
\* request it sent to that document's jwks_uri.
C14_Witness ==
    /\ \E i \in 1..Len(calls) : calls[i].outcome = "hop1fail" /\ calls[i].hops = 1
    /\ \E i \in 1..Len(calls) : calls[i].outcome = "ok" /\ calls[i].hops = 2
    /\ \E i \in 1..Len(calls) :
          /\ calls[i].pc = "hop2"
          /\ calls[i].req = Def("https://sts/keys")
          /\ calls[i].hops = 2
    /\ issuer = Def(TemplateB)

\* C15: with a clock that never runs backwards, lastUpdated never
\* decreases in any step, a step that changes it is one in which some
\* call's second hop succeeds, and a step in which a getKey call is made,
\* a getIssuer call is made or a hop fails leaves it as it was.
C15_LastUpdatedMonotone ==
    [][now' >= now =>
          /\ lastUpdated' >= lastUpdated
          /\ lastUpdated' # lastUpdated =>
                \E i \in 1..Len(calls) : Hop2Committed(i)
          /\ (\/ GetKeyCalled
              \/ issuerOut'.called
              \/ \E i \in 1..Len(calls) : Hop1Failed(i) \/ Hop2Failed(i))
             => lastUpdated' = lastUpdated]_vars

\* C15: of three refreshes started in turn on the stale cache the second
\* one committed first and the first one after it, at a later time, which
\* is what lastUpdated holds; the third one has failed since.
C15_Witness ==
    /\ Len(calls) = 3
    /\ calls[1].outcome = "ok" /\ calls[1].ver = 2
    /\ calls[2].outcome = "ok" /\ calls[2].ver = 1
    /\ calls[3].outcome \in {"hop1fail", "hop2fail"} /\ calls[3].ver = 2
    /\ ~calls[3].inWindow
    /\ lastUpdated = 2 * FreshWindow + 2

\* C16: when the cache holds a record of the kid looked up, the first such
\* record in list order decides what the callback receives, whatever the
\* records after it: the key built from that record's n (made base64) and
\* e with that record's endorsements when it has both n and e, and null
\* when it lacks one of them.
C16_FirstMatchDecides ==
    [][\A i \in 1..Len(calls') :
          (/\ Delivered(i)
           /\ keys'.def
           /\ Matches(keys'.val, calls'[i].keyId) # {})
          => LET rec == keys'.val[FirstMatch(keys'.val, calls'[i].keyId)]
             IN  calls'[i].result =
                    IF LacksModOrExp(rec)
                    THEN Null
                    ELSE Def([key |-> GetPem(ToBase64(rec.n.val), rec.e.val),
                              endorsements |-> rec.endorsements])]_vars

\* C16: from a list of two RSA records of the kid a call has received the
\* key of the first one, with its modulus, exponent and endorsements; the
\* second record has another modulus and no endorsements.
C16_Witness ==
    /\ keys = Def(<<RsaAbcB, RsaAbc>>)
    /\ \E i \in 1..Len(calls) :
          /\ calls[i].pc = "done"
          /\ calls[i].result =
                Def([key |-> GetPem(<<"A", "Q", "=", "=">>, <<"AQAB">>),
                     endorsements |-> Def(<<"msteams">>)])

\* C17: as long as no getKey call has been made the resolver holds
\* lastUpdated = 0 and neither keys nor issuer; and the first getKey call,
\* made at any time later than 432000000 ms after the epoch, starts a
\* refresh: it issues the GET of the url, searches nothing yet and its
\* callback has not run.
C17_FirstLookupRefreshes ==
    /\ [](calls = << >> =>
            (lastUpdated = 0 /\ keys = Undefined /\ issuer = Undefined))
    /\ [][(GetKeyCalled /\ calls = << >> /\ now > FiveDaysMs) =>
              /\ calls'[1].pc = "hop1"
              /\ calls'[1].hops = 1
              /\ calls'[1].req = Def(Url)
              /\ calls'[1].outcome = "pending"
              /\ calls'[1].result = Null]_vars

\* C17: the first getKey call was made 1 ms later than 5 days after the
\* epoch and waits for the answer to its first request; nothing is cached.
C17_Witness ==
    /\ Len(calls) = 1
    /\ calls[1].pc = "hop1"
    /\ calls[1].started = FiveDaysMs + 1
    /\ lastUpdated = 0 /\ keys = Undefined /\ issuer = Undefined

\* C18: with every request completing in the end, the callback of every
\* getKey call comes to run.  It runs in the step of the call itself when
\* the cache is at most 432000000 ms old, and otherwise not in that step
\* but in the step in which the refresh the call started ends, by the
\* failure of a hop or by the commit; and it runs once: after it has run
\* the call's record, with the result handed over, never changes.
C18_CallbackExactlyOnce ==
    /\ \A i \in 1..MaxCalls :
          (Len(calls) >= i) ~> (Len(calls) >= i /\ calls[i].pc = "done")
    /\ [][/\ GetKeyCalled =>
                (calls'[Len(calls')].pc = "done" <=> now - lastUpdated <= FiveDaysMs)
          /\ \A i \in 1..Len(calls) :
                /\ Delivered(i) =>
                      (Hop1Failed(i) \/ Hop2Failed(i) \/ Hop2Committed(i))
                /\ calls[i].pc = "done" => calls'[i] = calls[i]]_vars

\* C18: every call has had its callback run: one at once on a cache within
\* the window, one after its refresh failed at the first hop, one after
\* its refresh went through both hops.
C18_Witness ==
    /\ Len(calls) = MaxCalls
    /\ \A i \in 1..Len(calls) : calls[i].pc = "done"
    /\ \E i \in 1..Len(calls) : calls[i].outcome = "fresh" /\ calls[i].hops = 0
    /\ \E i \in 1..Len(calls) : calls[i].outcome = "hop1fail"
    /\ \E i \in 1..Len(calls) : calls[i].outcome \in {"ok", "hop2fail"}

\* C19: the failure of a refresh, at either hop, leaves lastUpdated as it
\* was and changes no other call; and a getKey call made while the clock
\* is more than 432000000 ms past lastUpdated starts a refresh of its own
\* with a new request for the discovery document, however many refreshes
\* have failed before it and however many are in flight.
C19_FailureNotRemembered ==
    [][/\ \A i \in 1..Len(calls) :
             (Hop1Failed(i) \/ Hop2Failed(i)) =>
                /\ lastUpdated' = lastUpdated
                /\ \A j \in 1..Len(calls) : j # i => calls'[j] = calls[j]
       /\ (/\ GetKeyCalled
           /\ now - lastUpdated > FiveDaysMs
           /\ \E j \in 1..Len(calls) :
                 calls[j].outcome \in {"hop1fail", "hop2fail", "pending"})
          => /\ calls'[Len(calls')].pc = "hop1"
             /\ calls'[Len(calls')].hops = 1
             /\ calls'[Len(calls')].req = Def(Url)
             /\ calls'[Len(calls')].started = now]_vars

\* C19: no refresh has ever committed; one has failed at its first hop,
\* one at its second, both before the clock's last value, at which a third
\* call has started a refresh of its own that waits for its first answer.
C19_Witness ==
    /\ Len(calls) = 3
    /\ calls[1].outcome = "hop1fail"
    /\ calls[2].outcome = "hop2fail"
    /\ calls[3].pc = "hop1" /\ calls[3].hops = 1
    /\ calls[3].started = 2 * FreshWindow + 2
    /\ commits = 0 /\ lastUpdated = 0

\* C20: take a step in which every response that the first hop's callback
\* takes for a success carries a non-empty issuer string.  If getIssuer
\* would return before the step, it returns after it, whatever hop has
\* failed in the step.  If the step is a first hop's success, issuer is the
\* issuer of that response afterwards, and otherwise it is as before,
\* whatever the step does to keys.  A getIssuer call just made has
\* returned the issuer held, with the tenant in place of the first
\* placeholder.
C20_IssuerSetOnce ==
    /\ [](issuerOut.called =>
            issuerOut = IssuerResult(issuer, issuerOut.tenantId))
    /\ [][(\A i \in 1..Len(calls) :
              Hop1Succeeded(i) =>
                 \A r \in Responses1 :
                    (~HopFailed(r) /\ Hop1Response(i, r)) => TruthyString(r.body.issuer))
          => /\ \A t \in Tenants :
                   ~IssuerResult(issuer, t).threw => ~IssuerResult(issuer', t).threw
             /\ \A i \in 1..Len(calls) : \A r \in Responses1 :
                   (Hop1Succeeded(i) /\ Hop1Response(i, r)) =>
                      /\ issuer' = r.body.issuer
                      /\ \A t \in Tenants :
                            IssuerResult(issuer', t).value =
                               Replace(r.body.issuer.val, "{tenantid}", t)
             /\ (\A i \in 1..Len(calls) : ~Hop1Succeeded(i)) => issuer' = issuer]_vars

\* C20: the keys were committed by the first call's refresh; a second
\* refresh has failed since; a third one, started 5 days and more after
\* the commit, has had the discovery document of the sts endpoint and
\* waits for its keys; getIssuer has returned that document's issuer with
\* the tenant in place of the first placeholder.
C20_Witness ==
    /\ Len(calls) = 3
    /\ calls[1].outcome = "ok" /\ commits = 1 /\ keys.def
    /\ lastUpdated = FreshWindow + 1
    /\ calls[2].outcome = "hop1fail" /\ calls[2].ver = 1
    /\ calls[3].pc = "hop2" /\ calls[3].started = 2 * FreshWindow + 2
    /\ issuer = Def(TemplateB)
    /\ issuerOut.called /\ ~issuerOut.threw
    /\ issuerOut.value = <<"https://sts/", "tenant1", "/", "{tenantid}">>

===========================================================================
